---- MODULE Spec2Model ----
(***************************************************************************)
(* A model of the RESP decoder of src/src/lib.rs: Parser<R> over an        *)
(* io::Bytes<R> byte source.  The recursive descent of parse_next is made  *)
(* explicit as a call stack; every self.bytes.next() is one step.          *)
(***************************************************************************)
EXTENDS Integers, Sequences, FiniteSets, TLC

VARIABLES
    input,      \* the items the byte source yields: bytes 0..255, or IoFailure
    pos,        \* number of items of the source already taken (io::Bytes cursor)
    stack,      \* call stack of the parser, innermost frame last
    ret,        \* <<>> or <<r>>: the Result the callee just returned to the top frame
    calls,      \* number of top-level parse_next calls issued so far
    results,    \* history: one record per finished top-level parse_next call
    nreads,     \* history: bytes.next() calls made by the current top-level call
    eofs,       \* history: how many of those returned None
    done,       \* history: <<>> or the record of the parse_next call that returned last
    line,       \* history: <<>> or the record of the read_to_crlf call that returned last
    intlog,     \* history: <<>> or the record of the parse_integer call that returned last
    childFail,  \* history: <<>> or the first failure of an array child in this call
    src         \* how the input was built (the family it is drawn from and its parts)

vars == <<input, pos, stack, ret, calls, results, nreads, eofs, done, line,
          intlog, childFail, src>>

-----------------------------------------------------------------------------
(* Bytes                                                                   *)

LF == 10
CR == 13
TagArray == 42
TagBulk == 36
TagError == 45
TagInteger == 58
TagSimple == 43
\* an item of the source that is an io::Error instead of a byte
IoFailure == 256

Byte == 0..255

-----------------------------------------------------------------------------
(* enum Error and enum RESPType.  The causes wrapped by BadInteger,        *)
(* BadString and IoError are not modelled.                                 *)

BadInteger == [e |-> "BadInteger"]
BadString == [e |-> "BadString"]
EndOfStream == [e |-> "EndOfStream"]
IoError == [e |-> "IoError"]
UnexpectedToken(c) == [e |-> "UnexpectedToken", c |-> c]
UnknownError == [e |-> "UnknownError"]

SimpleString(s) == [t |-> "SimpleString", v |-> s]
RESPError(s) == [t |-> "Error", v |-> s]
Integer(i) == [t |-> "Integer", v |-> i]
BulkString(b) == [t |-> "BulkString", v |-> b]
Null == [t |-> "Null"]
Array(a) == [t |-> "Array", v |-> a]

\* the Vec<u8> that read_to_crlf returns
Vec(b) == [t |-> "Vec", v |-> b]

Ok(v) == [ok |-> TRUE, val |-> v]
Err(e) == [ok |-> FALSE, err |-> e]

-----------------------------------------------------------------------------
(* i64.  TLC's integers are 32 bits wide, so an i64 is its sign and its    *)
(* decimal magnitude: a sequence of digits 0..9 without leading zeros,     *)
(* <<0>> for zero (which is never negative).                               *)

I64MaxMag == <<9,2,2,3,3,7,2,0,3,6,8,5,4,7,7,5,8,0,7>>
I64MinMag == <<9,2,2,3,3,7,2,0,3,6,8,5,4,7,7,5,8,0,8>>

I64(neg, mag) == [neg |-> neg /\ mag # <<0>>, mag |-> mag]
MinusOne == I64(TRUE, <<1>>)

RECURSIVE LexLeq(_, _)
LexLeq(a, b) ==
    IF a = <<>> THEN TRUE
    ELSE IF Head(a) # Head(b) THEN Head(a) < Head(b)
    ELSE LexLeq(Tail(a), Tail(b))

\* a <= b for canonical magnitudes
MagLeq(a, b) == Len(a) < Len(b) \/ (Len(a) = Len(b) /\ LexLeq(a, b))

\* leading zeros dropped: the canonical magnitude of a sequence of digits
RECURSIVE DropZeros(_)
DropZeros(m) == IF Len(m) > 1 /\ Head(m) = 0 THEN DropZeros(Tail(m)) ELSE m

\* the magnitude of `result` after the first j ASCII digits: from 0, each digit
\* d makes it result * 10 + d (or - d for a negative number)
Accumulated(digits, j) == DropZeros([k \in 1..j |-> digits[k] - 48])

\* the loop of from_str_radix from the j-th byte on: to_digit fails on a byte
\* that is no digit, checked_mul and checked_add (checked_sub for a negative
\* number) fail when the result leaves the i64 range
RECURSIVE Accumulate(_, _, _)
Accumulate(neg, digits, j) ==
    IF j > Len(digits) THEN Ok(I64(neg, Accumulated(digits, Len(digits))))
    ELSE IF digits[j] \notin 48..57 THEN Err(BadInteger)
    ELSE IF ~MagLeq(Accumulated(digits, j), IF neg THEN I64MinMag ELSE I64MaxMag)
         THEN Err(BadInteger)
    ELSE Accumulate(neg, digits, j + 1)

\* a parser that knows `-` as the only sign
ParseI64MinusOnly(x) ==
    IF x = <<>> THEN Err(BadInteger)
    ELSE IF Head(x) = 45
         THEN IF Tail(x) = <<>> THEN Err(BadInteger)
              ELSE Accumulate(TRUE, Tail(x), 1)
         ELSE Accumulate(FALSE, x, 1)

\* str::parse::<i64>() of the standard library (i64::from_str_radix(x, 10)):
\* empty text fails; one leading '+' or '-' is a sign and must be followed by
\* a digit; every other byte must be an ASCII digit; the value must fit.
ParseI64(x) ==
    IF x = <<>> THEN Err(BadInteger)
    ELSE IF Head(x) \in {43, 45}
         THEN IF Tail(x) = <<>> THEN Err(BadInteger)
              ELSE Accumulate(Head(x) = 45, Tail(x), 1)
         ELSE Accumulate(FALSE, x, 1)

\* the Nat that the first j digits of a magnitude denote
RECURSIVE MagPrefixToNat(_, _)
MagPrefixToNat(mag, j) == IF j = 0 THEN 0 ELSE 10 * MagPrefixToNat(mag, j - 1) + mag[j]

\* the Nat that a canonical magnitude of at most 9 digits denotes
MagToNat(mag) == MagPrefixToNat(mag, Len(mag))

\* the inclusive range 0..=n
RangeInclusive(i, n) ==
    IF n.neg THEN FALSE
    ELSE IF Len(n.mag) > 9 THEN TRUE
    ELSE i <= MagToNat(n.mag)

\* `i < n` for the loop counter i of `for _ in 0..n` (a Nat below 10^9) and an i64 n
RangeHasNext(i, n) ==
    IF n.neg THEN FALSE
    ELSE IF Len(n.mag) > 9 THEN TRUE
    ELSE i < MagToNat(n.mag)

-----------------------------------------------------------------------------
(* String::from_utf8: whether a byte sequence is well-formed UTF-8         *)

Cont(b) == b \in 128..191

\* whether b is well-formed UTF-8 from its i-th byte on
RECURSIVE IsUtf8From(_, _)
IsUtf8From(b, i) ==
    IF i > Len(b) THEN TRUE
    ELSE IF b[i] < 128 THEN IsUtf8From(b, i + 1)
    ELSE IF b[i] \in 194..223
         THEN Len(b) >= i + 1 /\ Cont(b[i + 1]) /\ IsUtf8From(b, i + 2)
    ELSE IF b[i] \in 224..239
         THEN /\ Len(b) >= i + 2
              /\ b[i + 1] \in (IF b[i] = 224 THEN 160..191
                               ELSE IF b[i] = 237 THEN 128..159 ELSE 128..191)
              /\ Cont(b[i + 2])
              /\ IsUtf8From(b, i + 3)
    ELSE IF b[i] \in 240..244
         THEN /\ Len(b) >= i + 3
              /\ b[i + 1] \in (IF b[i] = 240 THEN 144..191
                               ELSE IF b[i] = 244 THEN 128..143 ELSE 128..191)
              /\ Cont(b[i + 2])
              /\ Cont(b[i + 3])
              /\ IsUtf8From(b, i + 4)
    ELSE FALSE

IsUtf8(b) == IsUtf8From(b, 1)

-----------------------------------------------------------------------------
(* The byte source and the call stack                                      *)

\* self.bytes.next().transpose(): Ok(Some(b)), Ok(None) at the end of the data,
\* or Err(io::Error)
BytesNext ==
    IF pos >= Len(input) THEN [k |-> "None"]
    ELSE IF input[pos + 1] = IoFailure THEN [k |-> "Err"]
    ELSE [k |-> "Some", b |-> input[pos + 1]]

\* the effect of one self.bytes.next() on the source, and its count
Advance ==
    /\ pos' = IF pos < Len(input) THEN pos + 1 ELSE pos
    /\ nreads' = nreads + 1
    /\ eofs' = IF pos >= Len(input) THEN eofs + 1 ELSE eofs

Top == stack[Len(stack)]
Rest == SubSeq(stack, 1, Len(stack) - 1)
Running(f) == stack # <<>> /\ Top.fn = f

\* frames; tag, start and hdr of a parse_next frame and taken (the bytes a
\* read_to_crlf call has read) are history only
FNext(p) == [fn |-> "parse_next", pc |-> "read", tag |-> <<>>, start |-> p, hdr |-> <<>>]
FArray == [fn |-> "parse_array", pc |-> "len"]
FBulk == [fn |-> "parse_bulk_str", pc |-> "len"]
FError == [fn |-> "parse_error"]
FInteger == [fn |-> "parse_integer"]
FSimple == [fn |-> "parse_simple_str"]
FRead == [fn |-> "read_to_crlf", buf |-> <<>>, taken |-> 0]

\* parse_simple_str starts by calling read_to_crlf, parse_integer and parse_error
\* by calling parse_simple_str, parse_array and parse_bulk_str by calling
\* parse_integer: the frames a call pushes before the first byte is read
SimpleCall == <<FSimple, FRead>>
IntegerCall == <<FInteger>> \o SimpleCall
ErrorCall == <<FError>> \o SimpleCall

\* the match of parse_next on the tag byte: the sub-decoder called, <<>> for
\* an unexpected token
Dispatch(b) ==
    CASE b = TagArray -> <<FArray>> \o IntegerCall
      [] b = TagBulk -> <<FBulk>> \o IntegerCall
      [] b = TagError -> ErrorCall
      [] b = TagInteger -> IntegerCall
      [] b = TagSimple -> SimpleCall
      [] OTHER -> <<>>

\* a line reader that ends the line at CR and drops LF
ReadArmBreakOnCR(buf, r) ==
    IF r.k = "Err" THEN [k |-> "return", res |-> Err(IoError)]
    ELSE IF r.k = "None" THEN [k |-> "return", res |-> Err(EndOfStream)]
    ELSE IF r.b = CR THEN [k |-> "return", res |-> Ok(Vec(buf))]
    ELSE IF r.b = LF THEN [k |-> "continue", buf |-> buf]
    ELSE [k |-> "continue", buf |-> Append(buf, r.b)]

\* a line reader that keeps CR bytes
ReadArmKeepCR(buf, r) ==
    IF r.k = "Err" THEN [k |-> "return", res |-> Err(IoError)]
    ELSE IF r.k = "None" THEN [k |-> "return", res |-> Err(EndOfStream)]
    ELSE IF r.b = LF THEN [k |-> "return", res |-> Ok(Vec(buf))]
    ELSE [k |-> "continue", buf |-> Append(buf, r.b)]

\* a line reader that takes the end of the data for the end of the line
ReadArmEofEndsLine(buf, r) ==
    IF r.k = "Err" THEN [k |-> "return", res |-> Err(IoError)]
    ELSE IF r.k = "None" THEN [k |-> "return", res |-> Ok(Vec(buf))]
    ELSE IF r.b = LF THEN [k |-> "return", res |-> Ok(Vec(buf))]
    ELSE IF r.b = CR THEN [k |-> "continue", buf |-> buf]
    ELSE [k |-> "continue", buf |-> Append(buf, r.b)]

\* a line reader that goes on reading at the end of the data
ReadArmEofIgnored(buf, r) ==
    IF r.k = "Err" THEN [k |-> "return", res |-> Err(IoError)]
    ELSE IF r.k = "None" THEN [k |-> "continue", buf |-> buf]
    ELSE IF r.b = LF THEN [k |-> "return", res |-> Ok(Vec(buf))]
    ELSE IF r.b = CR THEN [k |-> "continue", buf |-> buf]
    ELSE [k |-> "continue", buf |-> Append(buf, r.b)]

\* one iteration of the loop of read_to_crlf on the outcome r of bytes.next():
\* the `?`, then the match on the byte
ReadArm(buf, r) ==
    IF r.k = "Err" THEN [k |-> "return", res |-> Err(IoError)]
    ELSE IF r.k = "None" THEN [k |-> "return", res |-> Err(EndOfStream)]
    ELSE IF r.b = LF THEN [k |-> "return", res |-> Ok(Vec(buf))]
    ELSE IF r.b = CR THEN [k |-> "continue", buf |-> buf]
    ELSE [k |-> "continue", buf |-> Append(buf, r.b)]

\* an array decoder for which every negative count is the null array
ArrayArmNegativeNull(len) ==
    IF len.t = "Integer"
    THEN IF len.v.neg THEN "null" ELSE "loop"
    ELSE "unknown"

\* the match of parse_array on the decoded count
ArrayArm(len) ==
    IF len.t = "Integer"
    THEN IF len.v = MinusOne THEN "null" ELSE "loop"
    ELSE "unknown"

\* `let item = self.parse_next()?; array.push(item)` that drops a failed item
\* and goes on
ItemArmSkipFailed(array, r) ==
    IF ~r.ok THEN [k |-> "continue", array |-> array]
    ELSE [k |-> "continue", array |-> Append(array, r.val)]

\* `let item = self.parse_next()?; array.push(item)` in the loop of
\* parse_array, on the result r of parse_next
ItemArm(array, r) ==
    IF ~r.ok THEN [k |-> "return", res |-> r]
    ELSE [k |-> "continue", array |-> Append(array, r.val)]

\* a bulk decoder with the guard n > 0
BulkArmPositive(len) ==
    IF len.t = "Integer"
    THEN IF len.v = MinusOne THEN "null"
         ELSE IF ~len.v.neg /\ len.v.mag # <<0>> THEN "loop" ELSE "unknown"
    ELSE "unknown"

\* the match of parse_bulk_str on the decoded length
BulkArm(len) ==
    IF len.t = "Integer"
    THEN IF len.v = MinusOne THEN "null"
         ELSE IF ~len.v.neg THEN "loop" ELSE "unknown"
    ELSE "unknown"

\* history: the parse_next call that called the running parse_array or
\* parse_bulk_str notes the decoded header and where its line ended
NoteHeader(stk, r) ==
    [stk EXCEPT ![Len(stk)] = [@ EXCEPT !.hdr = <<[len |-> r, end |-> pos]>>]]

histRead == <<results, done, line, intlog, childFail>>
histStep == <<nreads, eofs, results, done, line, intlog, childFail>>

-----------------------------------------------------------------------------
(* The caller                                                              *)

MaxCalls == 4

\* the caller invokes parser.parse_next() on an idle parser
Call ==
    /\ stack = <<>>
    /\ calls < MaxCalls
    /\ stack' = <<FNext(pos)>>
    /\ calls' = calls + 1
    /\ nreads' = 0
    /\ eofs' = 0
    /\ childFail' = <<>>
    /\ UNCHANGED <<input, pos, ret, results, done, line, intlog, src>>

-----------------------------------------------------------------------------
(* parse_next                                                              *)

\* let byte = self.bytes.next().transpose()?; byte.map(|b| match b as char ...)
ParseNextRead ==
    /\ Running("parse_next")
    /\ Top.pc = "read"
    /\ Advance
    /\ LET r == BytesNext
           tag == IF r.k = "Some" THEN <<r.b>> ELSE <<>>
           me == [Top EXCEPT !.pc = "wait", !.tag = tag]
       IN IF r.k = "Err" THEN /\ stack' = Append(Rest, me)
                              /\ ret' = <<Err(IoError)>>
          ELSE IF r.k = "None" THEN /\ stack' = Append(Rest, me)
                                    /\ ret' = <<Err(EndOfStream)>>
          ELSE IF Dispatch(r.b) = <<>>
               THEN /\ stack' = Append(Rest, me)
                    /\ ret' = <<Err(UnexpectedToken(r.b))>>
               ELSE /\ stack' = Append(Rest, me) \o Dispatch(r.b)
                    /\ ret' = <<>>
    /\ UNCHANGED <<input, calls, src>>
    /\ UNCHANGED histRead

\* parse_next returns what its sub-decoder (or the failed read) produced
ParseNextRet ==
    /\ Running("parse_next")
    /\ Top.pc = "wait"
    /\ ret # <<>>
    /\ stack' = Rest
    /\ done' = <<[tag |-> Top.tag, start |-> Top.start, hdr |-> Top.hdr,
                  res |-> ret[1], end |-> pos, depth |-> Len(stack)]>>
    /\ IF Rest = <<>>
       THEN /\ results' = Append(results, [res |-> ret[1], start |-> Top.start,
                                           end |-> pos, nreads |-> nreads,
                                           eofs |-> eofs])
            /\ ret' = <<>>
            /\ UNCHANGED childFail
       ELSE /\ UNCHANGED <<results, ret>>
            /\ childFail' = IF ~ret[1].ok /\ childFail = <<>>
                            THEN <<[err |-> ret[1].err, pos |-> pos, nreads |-> nreads]>>
                            ELSE childFail
    /\ UNCHANGED <<input, pos, calls, nreads, eofs, line, intlog, src>>

-----------------------------------------------------------------------------
(* read_to_crlf, parse_simple_str, parse_error, parse_integer              *)

\* one iteration of the loop of read_to_crlf
ReadToCrlfStep ==
    /\ Running("read_to_crlf")
    /\ Advance
    /\ LET a == ReadArm(Top.buf, BytesNext)
       IN IF a.k = "return"
          THEN /\ stack' = Rest
               /\ ret' = <<a.res>>
               /\ line' = IF a.res.ok
                          THEN <<[buf |-> a.res.val.v, start |-> pos - Top.taken,
                                  end |-> pos']>>
                          ELSE line
          ELSE /\ stack' = Append(Rest, [Top EXCEPT !.buf = a.buf, !.taken = @ + 1])
               /\ ret' = <<>>
               /\ UNCHANGED line
    /\ UNCHANGED <<input, calls, src, results, done, intlog, childFail>>

\* let buf = self.read_to_crlf()?; let s = String::from_utf8(buf)?;
ParseSimpleStrRet ==
    /\ Running("parse_simple_str")
    /\ ret # <<>>
    /\ stack' = Rest
    /\ ret' = IF ~ret[1].ok THEN ret
              ELSE IF IsUtf8(ret[1].val.v) THEN <<Ok(SimpleString(ret[1].val.v))>>
              ELSE <<Err(BadString)>>
    /\ UNCHANGED <<input, pos, calls, src>>
    /\ UNCHANGED histStep

\* let s = self.parse_simple_str()?; match s { SimpleString(x) => Ok(Error(x)), .. }
ParseErrorRet ==
    /\ Running("parse_error")
    /\ ret # <<>>
    /\ stack' = Rest
    /\ ret' = IF ~ret[1].ok THEN ret
              ELSE IF ret[1].val.t = "SimpleString" THEN <<Ok(RESPError(ret[1].val.v))>>
              ELSE <<Err(UnknownError)>>
    /\ UNCHANGED <<input, pos, calls, src>>
    /\ UNCHANGED histStep

\* the result of parse_integer on the result s of parse_simple_str
IntegerOf(s) ==
    IF ~s.ok THEN s
    ELSE IF s.val.t = "SimpleString"
         THEN LET i == ParseI64(s.val.v)
              IN IF i.ok THEN Ok(Integer(i.val)) ELSE i
         ELSE Err(UnknownError)

\* let s = self.parse_simple_str()?; ... let i = x.parse::<i64>()?;
ParseIntegerRet ==
    /\ Running("parse_integer")
    /\ ret # <<>>
    /\ stack' = Rest
    /\ ret' = <<IntegerOf(ret[1])>>
    /\ intlog' = IF ret[1].ok THEN <<[text |-> ret[1].val.v, res |-> IntegerOf(ret[1])]>>
                 ELSE intlog
    /\ UNCHANGED <<input, pos, calls, src, nreads, eofs, results, done, line, childFail>>

-----------------------------------------------------------------------------
(* parse_array                                                             *)

\* let len = self.parse_integer()?; match len { ... }
ParseArrayLen ==
    /\ Running("parse_array")
    /\ Top.pc = "len"
    /\ ret # <<>>
    /\ IF ~ret[1].ok
       THEN /\ stack' = Rest
            /\ UNCHANGED ret
       ELSE LET a == ArrayArm(ret[1].val)
            IN IF a = "loop"
               THEN /\ stack' = Append(NoteHeader(Rest, ret[1]),
                                       [fn |-> "parse_array", pc |-> "loop",
                                        n |-> ret[1].val.v, i |-> 0, array |-> <<>>])
                    /\ ret' = <<>>
               ELSE /\ stack' = NoteHeader(Rest, ret[1])
                    /\ ret' = IF a = "null" THEN <<Ok(Null)>> ELSE <<Err(UnknownError)>>
    /\ UNCHANGED <<input, pos, calls, src>>
    /\ UNCHANGED histStep

\* for _ in 0..n { let item = self.parse_next()?; ... } Ok(RESPType::Array(array))
ParseArrayLoop ==
    /\ Running("parse_array")
    /\ Top.pc = "loop"
    /\ IF RangeHasNext(Top.i, Top.n)
       THEN /\ stack' = Append(Rest, [Top EXCEPT !.pc = "item", !.i = @ + 1]) \o <<FNext(pos)>>
            /\ UNCHANGED ret
       ELSE /\ stack' = Rest
            /\ ret' = <<Ok(Array(Top.array))>>
    /\ UNCHANGED <<input, pos, calls, src>>
    /\ UNCHANGED histStep

\* let item = self.parse_next()?; array.push(item);
ParseArrayItem ==
    /\ Running("parse_array")
    /\ Top.pc = "item"
    /\ ret # <<>>
    /\ LET a == ItemArm(Top.array, ret[1])
       IN IF a.k = "return"
          THEN /\ stack' = Rest
               /\ ret' = <<a.res>>
          ELSE /\ stack' = Append(Rest, [Top EXCEPT !.pc = "loop", !.array = a.array])
               /\ ret' = <<>>
    /\ UNCHANGED <<input, pos, calls, src>>
    /\ UNCHANGED histStep

-----------------------------------------------------------------------------
(* parse_bulk_str                                                          *)

\* let len = self.parse_integer()?; match len { ... }
ParseBulkLen ==
    /\ Running("parse_bulk_str")
    /\ Top.pc = "len"
    /\ ret # <<>>
    /\ IF ~ret[1].ok
       THEN /\ stack' = Rest
            /\ UNCHANGED ret
       ELSE LET a == BulkArm(ret[1].val)
            IN IF a = "loop"
               THEN /\ stack' = Append(NoteHeader(Rest, ret[1]),
                                       [fn |-> "parse_bulk_str", pc |-> "loop",
                                        n |-> ret[1].val.v, i |-> 0, buf |-> <<>>])
                    /\ ret' = <<>>
               ELSE /\ stack' = NoteHeader(Rest, ret[1])
                    /\ ret' = IF a = "null" THEN <<Ok(Null)>> ELSE <<Err(UnknownError)>>
    /\ UNCHANGED <<input, pos, calls, src>>
    /\ UNCHANGED histStep

\* for _ in 0..n { let byte = self.bytes.next().transpose()?; ... }
ParseBulkByte ==
    /\ Running("parse_bulk_str")
    /\ Top.pc = "loop"
    /\ RangeHasNext(Top.i, Top.n)
    /\ Advance
    /\ LET r == BytesNext
       IN IF r.k = "Err" THEN /\ stack' = Rest
                              /\ ret' = <<Err(IoError)>>
          ELSE IF r.k = "None" THEN /\ stack' = Rest
                                    /\ ret' = <<Err(EndOfStream)>>
          ELSE /\ stack' = Append(Rest, [Top EXCEPT !.i = @ + 1, !.buf = Append(@, r.b)])
               /\ UNCHANGED ret
    /\ UNCHANGED <<input, calls, src>>
    /\ UNCHANGED histRead

\* the loop is over: self.read_to_crlf()?
ParseBulkEnd ==
    /\ Running("parse_bulk_str")
    /\ Top.pc = "loop"
    /\ ~RangeHasNext(Top.i, Top.n)
    /\ stack' = Append(Rest, [Top EXCEPT !.pc = "crlf"]) \o <<FRead>>
    /\ UNCHANGED <<input, pos, ret, calls, src>>
    /\ UNCHANGED histStep

\* self.read_to_crlf()?; Ok(RESPType::BulkString(buf))
ParseBulkRet ==
    /\ Running("parse_bulk_str")
    /\ Top.pc = "crlf"
    /\ ret # <<>>
    /\ stack' = Rest
    /\ ret' = IF ~ret[1].ok THEN ret ELSE <<Ok(BulkString(Top.buf))>>
    /\ UNCHANGED <<input, pos, calls, src>>
    /\ UNCHANGED histStep

-----------------------------------------------------------------------------
(* The inputs                                                              *)

\* the inputs of the tests of src/src/lib.rs
TestInputs ==
    { <<58,51,50,13,10>>,
      <<43,84,69,83,84,13,10>>,
      <<45,69,82,82,79,82,13,10>>,
      <<36,53,13,10,72,69,13,72,69,13,10>>,
      <<36,45,49,13,10>>,
      <<36,48,13,10,13,10>>,
      <<42,51,13,10,58,52,50,13,10,43,84,69,83,84,13,10,36,51,13,10,88,89,90,13,10,13,10>>,
      <<42,49,13,10,42,51,13,10,58,52,50,13,10,43,84,69,83,84,13,10,36,51,13,10,88,89,90,
        13,10,13,10,13,10>>,
      <<42,45,49,13,10>>,
      <<42,48,13,10>>,
      <<58,51,50,13,10,58,52,50,13,10>>,
      <<>>,
      <<58,116,101,110,13,10>>,
      <<58,49,48>>,
      <<42,50,13,10,43,120,13,10,13,10>> }

Start(in, s) ==
    /\ input = in
    /\ src = s
    /\ pos = 0
    /\ stack = <<>>
    /\ ret = <<>>
    /\ calls = 0
    /\ results = <<>>
    /\ nreads = 0
    /\ eofs = 0
    /\ done = <<>>
    /\ line = <<>>
    /\ intlog = <<>>
    /\ childFail = <<>>

-----------------------------------------------------------------------------
(* Well-formed encodings (the wire format): an encoding is a tree, Wire    *)
(* its bytes and Val the value it stands for.                              *)

ESimple(t) == [k |-> "simple", text |-> t]
EError(t) == [k |-> "error", text |-> t]
EInteger(i) == [k |-> "integer", i |-> i]
EBulk(b) == [k |-> "bulk", bytes |-> b]
ENullBulk == [k |-> "nullbulk"]
ENullArray == [k |-> "nullarray"]
EArray(items) == [k |-> "array", items |-> items]

CRLF == <<CR, LF>>

\* the canonical decimal digits of a Nat
RECURSIVE NatMag(_)
NatMag(n) == IF n < 10 THEN <<n>> ELSE Append(NatMag(n \div 10), n % 10)

\* the canonical decimal text of an i64, in ASCII
Decimal(i) == (IF i.neg THEN <<45>> ELSE <<>>) \o [j \in 1..Len(i.mag) |-> 48 + i.mag[j]]

NatI64(n) == I64(FALSE, NatMag(n))

RECURSIVE Wire(_)
RECURSIVE WireAll(_)
Wire(e) ==
    CASE e.k = "simple" -> <<TagSimple>> \o e.text \o CRLF
      [] e.k = "error" -> <<TagError>> \o e.text \o CRLF
      [] e.k = "integer" -> <<TagInteger>> \o Decimal(e.i) \o CRLF
      [] e.k = "bulk" -> <<TagBulk>> \o Decimal(NatI64(Len(e.bytes))) \o CRLF \o e.bytes \o CRLF
      [] e.k = "nullbulk" -> <<TagBulk>> \o Decimal(MinusOne) \o CRLF
      [] e.k = "nullarray" -> <<TagArray>> \o Decimal(MinusOne) \o CRLF
      [] e.k = "array" -> <<TagArray>> \o Decimal(NatI64(Len(e.items))) \o CRLF \o WireAll(e.items)
WireAll(es) == IF es = <<>> THEN <<>> ELSE Wire(Head(es)) \o WireAll(Tail(es))

RECURSIVE Val(_)
Val(e) ==
    CASE e.k = "simple" -> SimpleString(e.text)
      [] e.k = "error" -> RESPError(e.text)
      [] e.k = "integer" -> Integer(e.i)
      [] e.k = "bulk" -> BulkString(e.bytes)
      [] e.k = "nullbulk" -> Null
      [] e.k = "nullarray" -> Null
      [] e.k = "array" -> Array([j \in 1..Len(e.items) |-> Val(e.items[j])])

\* all sequences over S of length at most n
SeqsUpTo(S, n) == UNION {[1..m -> S] : m \in 0..n}

\* the leaves of nested encodings
Leaves ==
    { ESimple(<<97>>), EError(<<101>>), EInteger(MinusOne), EBulk(<<LF>>),
      ENullBulk, ENullArray }

MaxNodes == 3

\* the encodings of exactly n nodes, and the sequences of encodings of n nodes in all
RECURSIVE Trees(_)
RECURSIVE Forests(_)
Trees(n) ==
    IF n = 1 THEN Leaves \cup {EArray(<<>>)}
    ELSE {EArray(f) : f \in Forests(n - 1)}
Forests(n) ==
    IF n = 0 THEN {<<>>}
    ELSE UNION {{<<t>> \o f : t \in Trees(j), f \in Forests(n - j)} : j \in 1..n}

MaxText == 2
MaxBulk == 2

TextBytes == {97, 32, 36, 195, 169}
PayloadBytes == {CR, LF, 97, 255}

Texts == {t \in SeqsUpTo(TextBytes, MaxText) : IsUtf8(t)}
Payloads == SeqsUpTo(PayloadBytes, MaxBulk) \cup {<<72,69,13,72,69>>, [j \in 1..12 |-> 96 + j]}
Integers ==
    { NatI64(0), NatI64(7), NatI64(42), I64(TRUE, <<2>>), I64(TRUE, <<1,0>>),
      I64(FALSE, I64MaxMag), I64(TRUE, I64MinMag) }

\* encodings without children, over richer contents
Singles ==
    {ESimple(t) : t \in Texts} \cup {EError(t) : t \in Texts}
        \cup {EInteger(i) : i \in Integers} \cup {EBulk(b) : b \in Payloads}

WellFormed ==
    UNION {Forests(n) : n \in 0..MaxNodes}
        \cup {<<e>> : e \in Singles} \cup {<<EArray(<<e>>)>> : e \in Singles}

InitWellFormed == \E es \in WellFormed : Start(WireAll(es), [fam |-> "wellformed", encs |-> es])

\* every well-formed encoding the families below start from
Encodings ==
    UNION {Trees(n) : n \in 1..MaxNodes} \cup Singles \cup {EArray(<<e>>) : e \in Singles}

\* a proper prefix of one well-formed encoding
InitPrefix ==
    \E e \in Encodings : \E n \in 0..(Len(Wire(e)) - 1) :
        Start(SubSeq(Wire(e), 1, n), [fam |-> "prefix", enc |-> e, cut |-> n])

\* one well-formed encoding read from a source that fails at one place
InitIoFailure ==
    \E e \in UNION {Trees(n) : n \in 1..(MaxNodes - 1)} : \E j \in 1..Len(Wire(e)) :
        Start([Wire(e) EXCEPT ![j] = IoFailure], [fam |-> "iofailure", enc |-> e, at |-> j])

MaxRaw == 3
RawBytes == {TagArray, TagBulk, TagError, TagSimple, TagInteger, 49, 97, LF, CR}

\* arbitrary short inputs
InitRaw == \E in \in SeqsUpTo(RawBytes, MaxRaw) : Start(in, [fam |-> "raw"])

MaxIntLen == 3
IntBytes == {45, 43, 48, 49, 120, 32}
OtherIntTexts ==
    { <<57,50,50,51,51,55,50,48,51,54,56,53,52,55,55,53,56,48,55>>,
      <<57,50,50,51,51,55,50,48,51,54,56,53,52,55,55,53,56,48,56>>,
      <<43,57,50,50,51,51,55,50,48,51,54,56,53,52,55,55,53,56,48,55>>,
      <<45,57,50,50,51,51,55,50,48,51,54,56,53,52,55,55,53,56,48,56>>,
      <<45,57,50,50,51,51,55,50,48,51,54,56,53,52,55,55,53,56,48,57>>,
      <<48,48,48,48,48,48,48,48,48,48,48,48,48,48,48,48,48,48,48,48,48,55>>,
      <<57,57,57,57,57,57,57,57,57,57,57,57,57,57,57,57,57,57,57,57>>,
      <<49,48,48,48,48,48,48,48,48,48,48,48,48,48,48,48,48,48,48>>,
      <<49,50,51,52,53,54,55,56,57>>,
      <<49,45,50>>, <<45,45,49>>, <<49,46,53>>, <<49,101,51>>, <<48,120,49,48>>,
      <<116,101,110>>, <<43,53>>, <<53,32>>, <<195,169>>, <<217,161>>, <<45,50>>, <<50>> }
IntTexts == SeqsUpTo(IntBytes, MaxIntLen) \cup OtherIntTexts

\* one integer, length or count line
InitInteger ==
    \E tag \in {TagInteger, TagBulk, TagArray} : \E t \in IntTexts :
        Start(<<tag>> \o t \o CRLF, [fam |-> "integer", text |-> t])

MaxLine == 3
LineBytes == {CR, 49, 97}

\* lines with CR bytes anywhere, ended by a bare LF; after a bulk payload too
InitLine ==
    \E head \in {<<TagSimple>>, <<TagError>>, <<TagInteger>>, <<TagBulk, 49, CR, LF, 97>>} :
        \E t \in SeqsUpTo(LineBytes, MaxLine) :
            Start(head \o t \o <<LF>>, [fam |-> "line", text |-> t])

MaxWrap == 2

\* items whose decoding fails (or, cut short, takes what follows for its own)
BadItems ==
    { <<120>>, <<58,120,13,10>>, <<36,45,50,13,10>>, <<43,255,13,10>>, <<43,97>>,
      <<36,51,13,10,97>>, <<IoFailure>> }
Before == {<<>>, <<EArray(<<ESimple(<<97>>)>>)>>}
After == {<<>>, <<EInteger(NatI64(7))>>}

\* arrays nested d deep around one bad item, with well-formed items before
\* and after it at every level
RECURSIVE BadArrays(_)
BadArrays(d) ==
    IF d = 0 THEN BadItems
    ELSE { <<TagArray>> \o Decimal(NatI64(Len(pre) + 1 + Len(post))) \o CRLF
             \o WireAll(pre) \o in \o WireAll(post) :
           pre \in Before, post \in After, in \in BadArrays(d - 1) }

InitBadArray ==
    \E d \in 1..MaxWrap : \E in \in BadArrays(d) : Start(in, [fam |-> "badarray", depth |-> d])

InitTests == \E in \in TestInputs : Start(in, [fam |-> "test"])

Init ==
    \/ InitTests
    \/ InitWellFormed
    \/ InitPrefix
    \/ InitIoFailure
    \/ InitRaw
    \/ InitInteger
    \/ InitLine
    \/ InitBadArray

Next ==
    \/ Call
    \/ ParseNextRead
    \/ ParseNextRet
    \/ ReadToCrlfStep
    \/ ParseSimpleStrRet
    \/ ParseErrorRet
    \/ ParseIntegerRet
    \/ ParseArrayLen
    \/ ParseArrayLoop
    \/ ParseArrayItem
    \/ ParseBulkLen
    \/ ParseBulkByte
    \/ ParseBulkEnd
    \/ ParseBulkRet

Spec == Init /\ [][Next]_vars

\* the parser's own steps: a call, once made, runs to completion
Step ==
    \/ ParseNextRead
    \/ ParseNextRet
    \/ ReadToCrlfStep
    \/ ParseSimpleStrRet
    \/ ParseErrorRet
    \/ ParseIntegerRet
    \/ ParseArrayLen
    \/ ParseArrayLoop
    \/ ParseArrayItem
    \/ ParseBulkLen
    \/ ParseBulkByte
    \/ ParseBulkEnd
    \/ ParseBulkRet

\* the inputs for the check of termination
InitLive ==
    \/ InitTests
    \/ InitIoFailure
    \/ InitRaw
    \/ InitInteger
    \/ InitLine
    \/ InitBadArray

LiveSpec == InitLive /\ [][Next]_vars /\ WF_vars(Step)

-----------------------------------------------------------------------------
(* Properties                                                              *)

IsWellFormed == src.fam = "wellformed"
Finished == Len(results)

\* where the i-th of the concatenated encodings es starts in the input
Offset(es, i) == Len(WireAll(SubSeq(es, 1, i - 1)))

\* an encoding that is an array with an array among its children
HasNestedArray(e) ==
    /\ e.k = "array"
    /\ \E j \in 1..Len(e.items) : e.items[j].k = "array"

\* C1: on the concatenation of well-formed encodings E1..Ek, the i-th parse_next
\* call returns the value of Ei and consumes exactly the bytes of Ei; every call
\* after the k-th fails with EndOfStream.
C1_SuccessiveValues ==
    IsWellFormed =>
        \A i \in 1..Finished :
            IF i <= Len(src.encs)
            THEN /\ results[i].res = Ok(Val(src.encs[i]))
                 /\ results[i].start = Offset(src.encs, i)
                 /\ results[i].end = Offset(src.encs, i) + Len(Wire(src.encs[i]))
            ELSE /\ results[i].res = Err(EndOfStream)
                 /\ results[i].end = Len(input)

\* two values, the first an array with a child, both returned, then EndOfStream
C1_Witness ==
    /\ IsWellFormed
    /\ Len(src.encs) = 2
    /\ src.encs[1].k = "array"
    /\ src.encs[1].items # <<>>
    /\ Finished = 3
    /\ results[2].res = Ok(Val(src.encs[2]))
    /\ results[2].start > 0
    /\ results[3].res = Err(EndOfStream)

\* C2: `*N\r\n` followed by N well-formed encodings decodes to the Array of their
\* N values in input order, arrays among them included; for N = 0 it is the
\* empty Array and not Null.
C2_ArrayOfValues ==
    IsWellFormed =>
        \A i \in 1..Finished :
            (i <= Len(src.encs) /\ src.encs[i].k = "array") =>
                LET items == src.encs[i].items
                    r == results[i].res
                IN /\ r.ok
                   /\ r.val.t = "Array"
                   /\ Len(r.val.v) = Len(items)
                   /\ \A j \in 1..Len(items) : r.val.v[j] = Val(items[j])
                   /\ r.val # Null

\* an array holding an array that holds a value has been decoded
C2_Witness ==
    /\ IsWellFormed
    /\ Finished >= 1
    /\ Len(src.encs) = 1
    /\ HasNestedArray(src.encs[1])
    /\ src.encs[1].items[1].k = "array"
    /\ src.encs[1].items[1].items # <<>>
    /\ results[1].res.ok
    /\ results[1].res.val.v[1].v # <<>>

\* the length an i64 of at most 9 digits denotes, -1 when it is negative
LengthOf(i) == IF i.neg THEN 0 - 1 ELSE MagToNat(i.mag)

\* C3: `$L\r\n` + B + `\r\n` decodes to BulkString(B), also when B holds CR or LF
\* bytes and when L = 0; and whenever a bulk string is returned, at any depth,
\* it holds exactly the L bytes that follow the header line.
C3_BulkExact ==
    /\ IsWellFormed =>
           \A i \in 1..Finished :
               (i <= Len(src.encs) /\ src.encs[i].k = "bulk") =>
                   results[i].res = Ok(BulkString(src.encs[i].bytes))
    /\ (done # <<>> /\ done[1].res.ok /\ done[1].res.val.t = "BulkString") =>
           LET d == done[1]
               L == LengthOf(d.hdr[1].len.val.v)
           IN /\ d.tag = <<TagBulk>>
              /\ L >= 0
              /\ d.res.val.v = SubSeq(input, d.hdr[1].end + 1, d.hdr[1].end + L)

\* a payload with a CR and an LF in it has been decoded
C3_Witness ==
    /\ IsWellFormed
    /\ Finished >= 1
    /\ src.encs # <<>>
    /\ src.encs[1] = EBulk(<<CR, LF>>)
    /\ results[1].res = Ok(BulkString(<<CR, LF>>))

Returned == done # <<>>

\* the count or length a returned parse_next call decoded from its header line
HeaderOf(d) == d.hdr[1].len.val.v

\* C4: parse_next returns an Array only for a declared count >= 0, then with
\* that many children; a declared count below -1 fails with UnknownError.
C4_ArrayCount ==
    (Returned /\ done[1].tag = <<TagArray>> /\ done[1].hdr # <<>>) =>
        LET d == done[1]
            n == HeaderOf(d)
        IN /\ (d.res.ok /\ d.res.val.t = "Array") =>
                  (~n.neg /\ Len(d.res.val.v) = LengthOf(n))
           /\ (n.neg /\ n # MinusOne) => d.res = Err(UnknownError)

-----------------------------------------------------------------------------

\* the text of an integer line is ASCII
IsAscii(t) == \A j \in 1..Len(t) : t[j] < 128
AllDigits(t) == t # <<>> /\ \A j \in 1..Len(t) : t[j] \in 48..57

\* the decimal magnitude a text of digits denotes: its digits from the first
\* that is not 0 (the last digit when all are 0)
MagOf(t) ==
    LET lead == {j \in 1..Len(t) : \A k \in 1..j : t[k] = 48}
        from == IF Cardinality(lead) = Len(t) THEN Len(t) ELSE Cardinality(lead) + 1
    IN [j \in 1..(Len(t) - from + 1) |-> t[from + j - 1] - 48]

\* the outcome the integer sub-decoder must have on the text t when the signs
\* in `signs` are accepted
IntegerOutcome(t, res, signs) ==
    LET signed == t # <<>> /\ Head(t) \in signs
        digits == IF signed THEN Tail(t) ELSE t
        neg == signed /\ Head(t) = 45
        fits == AllDigits(digits)
                  /\ MagLeq(MagOf(digits), IF neg THEN I64MinMag ELSE I64MaxMag)
    IN IF fits THEN res = Ok(Integer(I64(neg, MagOf(digits))))
       ELSE res = Err(BadInteger)

\* C5 as stated: an ASCII line text decodes to Integer(N) exactly when it is an
\* optional `-` followed by digits denoting an N in the i64 range; every other
\* text, a leading `+` included, fails with BadInteger.
C5_MinusOnly ==
    (intlog # <<>> /\ IsAscii(intlog[1].text)) =>
        IntegerOutcome(intlog[1].text, intlog[1].res, {45})

\* C5 amended: an ASCII line text decodes to Integer(N) exactly when it is an
\* optional single `-` or `+` followed by one or more digits denoting an N in
\* the i64 range; every other text fails with BadInteger.
C5_OptionalSign ==
    (intlog # <<>> /\ IsAscii(intlog[1].text)) =>
        IntegerOutcome(intlog[1].text, intlog[1].res, {45, 43})

\* a text with a leading `+` has been decoded
C5_Witness ==
    /\ intlog # <<>>
    /\ intlog[1].text = <<43, 48, 49>>
    /\ intlog[1].res = Ok(Integer(I64(FALSE, <<1>>)))

-----------------------------------------------------------------------------

\* C6: on a proper prefix of a well-formed encoding, the empty prefix included,
\* parse_next fails with EndOfStream.
C6_PrefixEndOfStream ==
    (src.fam = "prefix" /\ Finished >= 1) =>
        /\ results[1].res = Err(EndOfStream)
        /\ results[1].end = Len(input)

\* the prefix of a nested array that ends inside a bulk payload has failed
C6_Witness ==
    /\ src.fam = "prefix"
    /\ Finished >= 1
    /\ HasNestedArray(src.enc)
    /\ src.cut > 12
    /\ input[src.cut - 1] = LF
    /\ input[src.cut] = LF
    /\ results[1].res = Err(EndOfStream)

-----------------------------------------------------------------------------

\* no parse_next call is about to read its tag byte
NoneStarting == \A j \in 1..Len(stack) : ~(stack[j].fn = "parse_next" /\ stack[j].pc = "read")

\* C7: once the decoding of a child of an array has failed with e, nothing more
\* is read from the source and no further child is attempted, every enclosing
\* frame hands e on, and the top-level parse_next call fails with e.
C7_ChildFailure ==
    childFail # <<>> =>
        LET f == childFail[1]
        IN /\ pos = f.pos
           /\ nreads = f.nreads
           /\ NoneStarting
           /\ ret # <<>> => ret[1] = Err(f.err)
           /\ stack # <<>> => ret # <<>>
           /\ stack = <<>> =>
                  /\ results[Finished].res = Err(f.err)
                  /\ results[Finished].end = f.pos
                  /\ results[Finished].nreads = f.nreads

\* the second child of an array inside an array failed with BadInteger, bytes
\* of later children were left unread, and the call failed with BadInteger
C7_Witness ==
    /\ src.fam = "badarray"
    /\ src.depth = 2
    /\ childFail # <<>>
    /\ childFail[1].err = BadInteger
    /\ stack = <<>>
    /\ results[Finished].res = Err(BadInteger)
    /\ results[Finished].end < Len(input)
    /\ input[2] = 51

-----------------------------------------------------------------------------

\* C8: a parse_next call returns Null exactly when its tag is `$` or `*` and its
\* header line decodes to -1, and then it has consumed nothing after that line;
\* a declared 0 gives the empty BulkString or the empty Array.
C8_NullOnlyMinusOne ==
    /\ Returned =>
           LET d == done[1]
               minusOne == /\ d.tag \in {<<TagBulk>>, <<TagArray>>}
                           /\ d.hdr # <<>>
                           /\ HeaderOf(d) = MinusOne
           IN /\ (d.res = Ok(Null)) <=> minusOne
              /\ minusOne => d.end = d.hdr[1].end
              /\ (d.hdr # <<>> /\ HeaderOf(d) = NatI64(0) /\ d.res.ok) =>
                     d.res.val = IF d.tag = <<TagBulk>> THEN BulkString(<<>>) ELSE Array(<<>>)
    /\ (Finished >= 1 /\ input = <<36,48,13,10,13,10>>) => results[1].res = Ok(BulkString(<<>>))
    /\ (Finished >= 1 /\ input = <<42,48,13,10>>) => results[1].res = Ok(Array(<<>>))

\* a null array nested in an array has been returned, with bytes left after it
C8_Witness ==
    /\ Returned
    /\ done[1].res = Ok(Null)
    /\ done[1].tag = <<TagArray>>
    /\ done[1].depth > 1
    /\ done[1].end < Len(input)

-----------------------------------------------------------------------------

WithoutCR(s) == SelectSeq(s, LAMBDA b : b # CR)
HasCRLF(s) == \E j \in 1..Len(s) : s[j] \in {CR, LF}

\* whether a SimpleString or Error anywhere in the value v holds a CR or an LF
RECURSIVE TextHasCRLF(_)
TextHasCRLF(v) ==
    CASE v.t \in {"SimpleString", "Error"} -> HasCRLF(v.v)
      [] v.t = "Array" -> \E j \in 1..Len(v.v) : TextHasCRLF(v.v[j])
      [] OTHER -> FALSE

\* C9: read_to_crlf returns the bytes before the first LF of the remaining
\* input without its CR bytes and consumes up to and including that LF; no
\* SimpleString or Error text returned by parse_next, at any depth, holds a CR
\* or an LF.
C9_LineReader ==
    /\ line # <<>> =>
           LET l == line[1]
               before == SubSeq(input, l.start + 1, l.end - 1)
           IN /\ l.end > l.start
              /\ input[l.end] = LF
              /\ \A j \in 1..Len(before) : before[j] # LF
              /\ l.buf = WithoutCR(before)
    /\ (Returned /\ done[1].res.ok) => ~TextHasCRLF(done[1].res.val)

\* a line with a CR in its middle has been read, and returned without the CR
C9_Witness ==
    /\ line # <<>>
    /\ line[1].buf = <<49, 97>>
    /\ SubSeq(input, line[1].start + 1, line[1].end) = <<49, CR, 97, LF>>
    /\ Returned
    /\ done[1].res = Ok(SimpleString(<<49, 97>>))

-----------------------------------------------------------------------------

Busy == stack # <<>>

\* C10: a parse_next call reads forward only, each remaining item of the source
\* at most once, makes at most (remaining + 1) reads, stops reading at the
\* first end-of-data, and returns.
C10_ReadsBounded ==
    /\ [](Busy => /\ eofs <= 1
                  /\ pos = stack[1].start + nreads - eofs
                  /\ nreads <= Len(input) - stack[1].start + 1)
    /\ [][Busy /\ eofs = 1 => nreads' = nreads \/ ~Busy']_vars
    /\ Busy ~> ~Busy

\* a call on a count far beyond the remaining bytes has returned EndOfStream
\* after reading every byte once and the end of the data once
C10_Witness ==
    /\ ~Busy
    /\ input = <<TagArray>> \o [j \in 1..19 |-> 48 + I64MaxMag[j]] \o CRLF
    /\ Finished = 1
    /\ results[1].res = Err(EndOfStream)
    /\ results[1].nreads = Len(input) + 1

====
